---- MODULE Spec2Model ----
(***************************************************************************)
(* @hirarijs/builder (src/src/index.ts): the tsconfig-paths esbuild plugin *)
(* (setup + onResolve hook) and the runBuild pipeline.                     *)
(*                                                                         *)
(* Strings are sequences of one-character strings, so that regular-        *)
(* expression matching, path.extname, endsWith, toLowerCase and includes   *)
(* are computed rather than assumed.  Paths are absolute, below the        *)
(* resolved baseUrl "/r".                                                  *)
(*                                                                         *)
(* Two specifications: SpecResolve (plugin setup and one import handed to  *)
(* esbuild) and Spec (one runBuild invocation).                            *)
(***************************************************************************)
EXTENDS Integers, Sequences, FiniteSets, TLC

VARIABLES
    tsconfig,     \* the tsconfig.json as tsconfigPathsPlugin.setup reads it
    fs,           \* filesystem: set of [path, kind], every other path absent
    specifier,    \* args.path: the import specifier esbuild is resolving
    ppc,          \* plugin position: "setup", "ready", "threw", "resolved"
    hook,         \* the onResolve registration made by setup
    resolved,     \* the hook's local `resolved` (what match returned)
    result,       \* what esbuild got for the specifier from this plugin
    accessed,     \* paths whose existence/stat was checked for the specifier
    run           \* the state of one runBuild invocation

vars == <<tsconfig, fs, specifier, ppc, hook, resolved, result, accessed, run>>

----------------------------------------------------------------------------
(* Bounds *)

MaxPresent == 2     \* at most this many paths of the filesystem are not absent
MaxEntries == 3     \* at most this many discovered / listed entry points

----------------------------------------------------------------------------
(* Strings *)

Concat3(a, b, c) == a \o b \o c

RECURSIVE LastIndexOf(_, _, _)
\* 1-based index of the last c in s[1..n], 0 when there is none
LastIndexOf(s, c, n) ==
    IF n = 0 THEN 0
    ELSE IF s[n] = c THEN n
    ELSE LastIndexOf(s, c, n - 1)

RECURSIVE IndexOf(_, _, _)
\* 1-based index of the first c in s at or after i, 0 when there is none
IndexOf(s, c, i) ==
    IF i > Len(s) THEN 0
    ELSE IF s[i] = c THEN i
    ELSE IndexOf(s, c, i + 1)

startsWith(s, pre) ==
    /\ Len(pre) <= Len(s)
    /\ SubSeq(s, 1, Len(pre)) = pre

endsWith(s, suf) ==
    /\ Len(suf) <= Len(s)
    /\ SubSeq(s, Len(s) - Len(suf) + 1, Len(s)) = suf

includes(s, sub) ==
    \E i \in 1..(Len(s) - Len(sub) + 1) : SubSeq(s, i, i + Len(sub) - 1) = sub

\* String.prototype.replace(c, by) with a string pattern: the first c only
replaceFirst(s, c, by) ==
    LET i == IndexOf(s, c, 1)
    IN  IF i = 0 THEN s
        ELSE Concat3(SubSeq(s, 1, i - 1), by, SubSeq(s, i + 1, Len(s)))

----------------------------------------------------------------------------
(* node:path *)

basename(p) == SubSeq(p, LastIndexOf(p, "/", Len(p)) + 1, Len(p))

\* path.extname: from the last "." of the last segment; "" when there is no
\* ".", when the only "." leads the segment, and for "..".
extname(p) ==
    LET b == basename(p)
        i == LastIndexOf(b, ".", Len(b))
    IN  IF i <= 1 \/ b = <<".", ".">> THEN <<>> ELSE SubSeq(b, i, Len(b))

dirname(p) ==
    LET i == LastIndexOf(p, "/", Len(p))
    IN  IF i = 0 THEN <<".">>
        ELSE IF i = 1 THEN <<"/">>
        ELSE SubSeq(p, 1, i - 1)

\* path.join(a, b) for a normalized a and a relative b
join(a, b) == IF endsWith(a, <<"/">>) THEN a \o b ELSE Concat3(a, <<"/">>, b)

----------------------------------------------------------------------------
(* node:fs over the modelled filesystem *)

Kinds == {"file", "dir", "err"}   \* "err": broken link, permission denied

KindOf(f, p) ==
    IF \E e \in f : e.path = p
    THEN (CHOOSE e \in f : e.path = p).kind
    ELSE "absent"

\* existsSync never throws: every failure reads as "does not exist"
existsSync(f, p) == KindOf(f, p) \in {"file", "dir"}

\* statSync(p): "file" / "dir" for isFile() / not, "throw" when it throws
statSync(f, p) ==
    CASE KindOf(f, p) = "file" -> "file"
      [] KindOf(f, p) = "dir"  -> "dir"
      [] OTHER                 -> "throw"

----------------------------------------------------------------------------
(* Program constants *)

\* the extension list handed to match and probed by the hook
extensions ==
    << <<".", "t", "s">>, <<".", "t", "s", "x">>, <<".", "j", "s">>,
       <<".", "j", "s", "x">>, <<".", "j", "s", "o", "n">> >>

\* path.resolve(tsconfigDir, compilerOptions.baseUrl || '.')
resolvedBase == <<"/", "r">>

Undefined == [kind |-> "undefined", path |-> <<>>]
Path(p) == [kind |-> "path", path |-> p]

----------------------------------------------------------------------------
(* The onResolve filter: new RegExp(`^(${keys with '*' -> '.*'}.join('|'))`) *)

RECURSIVE regexFrom(_, _, _, _, _)
\* whether pat[i..] matches some prefix of s[j..]; pat is an alias key read
\* as regular-expression source: the first "*" has become ".*" (starAt is its
\* index), "." matches any character, every other character is a literal.
regexFrom(pat, starAt, i, s, j) ==
    IF i > Len(pat) THEN TRUE
    ELSE IF i = starAt
         THEN \E k \in j..(Len(s) + 1) : regexFrom(pat, starAt, i + 1, s, k)
    ELSE /\ j <= Len(s)
         /\ pat[i] = "." \/ pat[i] = s[j]
         /\ regexFrom(pat, starAt, i + 1, s, j + 1)

\* filter.test(args.path); with no keys the source is "^()", which matches
\* every string
filterMatches(pathKeys, s) ==
    \/ pathKeys = <<>>
    \/ \E n \in 1..Len(pathKeys) :
           regexFrom(pathKeys[n], IndexOf(pathKeys[n], "*", 1), 1, s, 1)

----------------------------------------------------------------------------
(* tsconfig-paths: createMatchPath(resolvedBase, paths) and the returned     *)
(* match(requestedModule, undefined, undefined, extensions).  The library's  *)
(* defaults apply: addMatchAll = true, fileExists = statSync(p).isFile()     *)
(* with errors read as false, readJson = existsSync(p) ? require(p) : none.  *)

getPrefixLength(pattern) ==
    LET i == IndexOf(pattern, "*", 1)
    IN  IF i = 0 THEN Len(pattern) ELSE i - 1

RECURSIVE insertByPrefix(_, _)
\* e goes behind every entry whose prefix is at least as long (a stable sort)
insertByPrefix(sorted, e) ==
    IF sorted = <<>> THEN <<e>>
    ELSE IF getPrefixLength(Head(sorted).key) >= getPrefixLength(e.key)
         THEN <<Head(sorted)>> \o insertByPrefix(Tail(sorted), e)
    ELSE <<e>> \o sorted

RECURSIVE sortByLongestPrefix(_)
sortByLongestPrefix(entries) ==
    IF entries = <<>> THEN <<>>
    ELSE insertByPrefix(
             sortByLongestPrefix(SubSeq(entries, 1, Len(entries) - 1)),
             entries[Len(entries)])

\* the sorted keys with their targets joined to the base, then the match-all
\* entry "*" -> base/* when no key is "*"
getAbsoluteMappingEntries(paths) ==
    LET sorted == sortByLongestPrefix(paths)
        abs == [n \in 1..Len(sorted) |->
                   [pattern |-> sorted[n].key,
                    paths   |-> [m \in 1..Len(sorted[n].targets) |->
                                    join(resolvedBase, sorted[n].targets[m])]]]
    IN  IF \E n \in 1..Len(paths) : paths[n].key = <<"*">>
        THEN abs
        ELSE Append(abs, [pattern |-> <<"*">>,
                          paths   |-> <<join(resolvedBase, <<"*">>)>>])

\* [ok, star]: the text the pattern's "*" stands for in search
matchStar(pattern, search) ==
    LET star  == IndexOf(pattern, "*", 1)
        part1 == SubSeq(pattern, 1, star - 1)
        part2 == SubSeq(pattern, star + 1, Len(pattern))
        upto  == IF star - 1 + Len(search) - Len(part2) < Len(search)
                 THEN star - 1 + Len(search) - Len(part2)
                 ELSE Len(search)
    IN  IF Len(search) < Len(pattern) THEN [ok |-> FALSE, star |-> <<>>]
        ELSE IF pattern = <<"*">> THEN [ok |-> TRUE, star |-> search]
        ELSE IF star = 0 THEN [ok |-> FALSE, star |-> <<>>]
        ELSE IF ~startsWith(search, part1) THEN [ok |-> FALSE, star |-> <<>>]
        ELSE IF ~endsWith(search, part2) THEN [ok |-> FALSE, star |-> <<>>]
        ELSE [ok |-> TRUE, star |-> SubSeq(search, star, upto)]

\* the try-paths of one physical path: the file itself, the file with each
\* extension, the package.json, the index file with each extension
tryPathsOf(physicalPath) ==
    <<[type |-> "file", path |-> physicalPath]>>
    \o [n \in 1..Len(extensions) |->
           [type |-> "extension", path |-> physicalPath \o extensions[n]]]
    \o <<[type |-> "package",
          path |-> join(physicalPath, <<"p", "a", "c", "k", "a", "g", "e">>
                                       \o extensions[5])]>>
    \o [n \in 1..Len(extensions) |->
           [type |-> "index",
            path |-> join(physicalPath, <<"i", "n", "d", "e", "x">>)
                     \o extensions[n]]]

RECURSIVE tryPathsOfAll(_, _)
tryPathsOfAll(physicalPatterns, star) ==
    IF physicalPatterns = <<>> THEN <<>>
    ELSE tryPathsOf(replaceFirst(Head(physicalPatterns), "*", star))
         \o tryPathsOfAll(Tail(physicalPatterns), star)

RECURSIVE tryPathsOfEntries(_, _)
tryPathsOfEntries(entries, requestedModule) ==
    IF entries = <<>> THEN <<>>
    ELSE LET entry == Head(entries)
             m == IF entry.pattern = requestedModule
                  THEN [ok |-> TRUE, star |-> <<>>]
                  ELSE matchStar(entry.pattern, requestedModule)
         IN  (IF m.ok THEN tryPathsOfAll(entry.paths, m.star) ELSE <<>>)
             \o tryPathsOfEntries(Tail(entries), requestedModule)

\* <<>> stands for the library's undefined (nothing to try)
getPathsToTry(entries, requestedModule) ==
    IF requestedModule = <<>> \/ Head(requestedModule) = "."
    THEN <<>>
    ELSE tryPathsOfEntries(entries, requestedModule)

\* fileExistsSync: statSync(p).isFile(), false when statSync throws
fileExistsSync(f, p) == statSync(f, p) = "file"

\* whether findFirstExistingPath stops at this try-path.  A package.json is
\* only read when it exists; the modelled filesystems hold none.
tryPathHits(f, t) ==
    IF t.type = "package" THEN FALSE ELSE fileExistsSync(f, t.path)

RECURSIVE firstHit(_, _, _)
\* index of the first try-path that exists, 0 when none does
firstHit(f, tryPaths, i) ==
    IF i > Len(tryPaths) THEN 0
    ELSE IF tryPathHits(f, tryPaths[i]) THEN i
    ELSE firstHit(f, tryPaths, i + 1)

\* removeExtension: path.substring(0, path.lastIndexOf(".")) || path
removeExtension(p) ==
    LET i == LastIndexOf(p, ".", Len(p))
    IN  IF i <= 1 THEN p ELSE SubSeq(p, 1, i - 1)

getStrippedPath(t) ==
    CASE t.type = "index"     -> dirname(t.path)
      [] t.type = "extension" -> removeExtension(t.path)
      [] OTHER                -> t.path

\* match(args.path, undefined, undefined, extensions)
match(f, paths, requestedModule) ==
    LET tryPaths == getPathsToTry(getAbsoluteMappingEntries(paths),
                                  requestedModule)
        i == firstHit(f, tryPaths, 1)
    IN  IF i = 0 THEN Undefined ELSE Path(getStrippedPath(tryPaths[i]))

\* the paths match looked at
matchAccessed(f, paths, requestedModule) ==
    LET tryPaths == getPathsToTry(getAbsoluteMappingEntries(paths),
                                  requestedModule)
        i == firstHit(f, tryPaths, 1)
        last == IF i = 0 THEN Len(tryPaths) ELSE i
    IN  {tryPaths[n].path : n \in 1..last}

----------------------------------------------------------------------------
(* tsconfigPathsPlugin: the onResolve hook *)

\* `${resolved}${ext}` for each ext, in order
directCandidates(r) == [n \in 1..Len(extensions) |-> r \o extensions[n]]

\* `${resolved}/index${ext}` for each ext, in order
indexCandidates(r) ==
    [n \in 1..Len(extensions) |->
        Concat3(r, <<"/", "i", "n", "d", "e", "x">>, extensions[n])]

\* existsSync(filePath) && statSync(filePath).isFile(), a throw being caught
\* and ignored
candidateIsFile(f, filePath) ==
    /\ existsSync(f, filePath)
    /\ statSync(f, filePath) = "file"

RECURSIVE probeStopAtError(_, _, _)
\* a probe loop that gives up at the first candidate the filesystem fails on
probeStopAtError(f, cands, i) ==
    IF i > Len(cands) THEN 0
    ELSE IF KindOf(f, cands[i]) = "err" THEN 0
    ELSE IF candidateIsFile(f, cands[i]) THEN i
    ELSE probeStopAtError(f, cands, i + 1)

RECURSIVE probe(_, _, _)
\* one `for (const ext of extensions)` loop: the index of the candidate it
\* returns, 0 when it runs to its end
probe(f, cands, i) ==
    IF i > Len(cands) THEN 0
    ELSE IF candidateIsFile(f, cands[i]) THEN i
    ELSE probe(f, cands, i + 1)

\* the hook with its two loops in the other order
onResolveIndexFirst(f, paths, path) ==
    LET r == match(f, paths, path)
        d == probe(f, directCandidates(r.path), 1)
        x == probe(f, indexCandidates(r.path), 1)
    IN  IF r.kind = "undefined" THEN Undefined
        ELSE IF extname(r.path) # <<>> THEN Path(r.path)
        ELSE IF x # 0 THEN Path(indexCandidates(r.path)[x])
        ELSE IF d # 0 THEN Path(directCandidates(r.path)[d])
        ELSE Undefined

\* the callback given to pluginBuild.onResolve: what it returns for args.path
onResolve(f, paths, path) ==
    LET r == match(f, paths, path)
        d == probe(f, directCandidates(r.path), 1)
        x == probe(f, indexCandidates(r.path), 1)
    IN  IF r.kind = "undefined" THEN Undefined
        ELSE IF extname(r.path) # <<>> THEN Path(r.path)
        ELSE IF d # 0 THEN Path(directCandidates(r.path)[d])
        ELSE IF x # 0 THEN Path(indexCandidates(r.path)[x])
        ELSE Undefined

\* the paths the callback's own loops look at
onResolveAccessed(f, paths, path) ==
    LET r == match(f, paths, path)
        dc == directCandidates(r.path)
        xc == indexCandidates(r.path)
        d == probe(f, dc, 1)
        x == probe(f, xc, 1)
    IN  IF r.kind = "undefined" \/ extname(r.path) # <<>> THEN {}
        ELSE IF d # 0 THEN {dc[n] : n \in 1..d}
        ELSE {dc[n] : n \in 1..Len(dc)}
             \cup {xc[n] : n \in 1..(IF x # 0 THEN x ELSE Len(xc))}

----------------------------------------------------------------------------
(* tsconfigPathsPlugin: setup *)

NoHook == [installed |-> FALSE, pathKeys |-> <<>>, paths |-> <<>>]

\* setup(pluginBuild): where it ends ("ready": returned, "threw": raised) and
\* the onResolve registration it made
setup(cfg) ==
    IF ~cfg.readable
    THEN [pc |-> "ready", hook |-> NoHook]        \* readFileSync threw: return
    ELSE IF ~cfg.wellFormed
    THEN [pc |-> "threw", hook |-> NoHook]        \* JSON.parse throws
    ELSE IF ~cfg.hasCompilerOptions
    THEN [pc |-> "threw", hook |-> NoHook]        \* undefined.paths: TypeError
    ELSE IF ~cfg.hasPaths
    THEN [pc |-> "ready", hook |-> NoHook]        \* no paths to resolve
    ELSE [pc |-> "ready",
          hook |-> [installed |-> TRUE,
                    pathKeys  |-> [n \in 1..Len(cfg.paths) |-> cfg.paths[n].key],
                    paths     |-> cfg.paths]]

\* esbuild calls the callback for the specifiers the filter matches
hookCalled(h, path) == h.installed /\ filterMatches(h.pathKeys, path)

----------------------------------------------------------------------------
(* The inputs of SpecResolve *)

Str_s_star == <<"s", "/", "*">>                   \* "s/*"
Str_s_c    == <<"s", "/", "c">>                   \* "s/c"
Key_tilde  == <<"~", "/", "*">>                   \* "~/*"
Key_dot    == <<"a", ".", "b">>                   \* "a.b"

TsConfig(readable, wellFormed, hasCompilerOptions, hasPaths, paths) ==
    [readable |-> readable, wellFormed |-> wellFormed,
     hasCompilerOptions |-> hasCompilerOptions, hasPaths |-> hasPaths,
     paths |-> paths]

PluginConfigs ==
    << TsConfig(TRUE, TRUE, TRUE, TRUE,            \* "paths": {"~/*": ["s/*"]}
                <<[key |-> Key_tilde, targets |-> <<Str_s_star>>]>>),
       TsConfig(TRUE, TRUE, TRUE, TRUE,            \* "paths": {"a.b": ["s/c"]}
                <<[key |-> Key_dot, targets |-> <<Str_s_c>>]>>),
       TsConfig(TRUE, TRUE, TRUE, TRUE, <<>>),     \* "paths": {}
       TsConfig(TRUE, TRUE, TRUE, FALSE, <<>>),    \* compilerOptions, no paths
       TsConfig(TRUE, TRUE, FALSE, FALSE, <<>>),   \* { "include": [...] }
       TsConfig(TRUE, FALSE, TRUE, FALSE, <<>>),   \* not JSON
       TsConfig(FALSE, TRUE, TRUE, FALSE, <<>>) >> \* cannot be read

Specifiers ==
    << <<"~", "/", "b", ".", "c">>,                \* "~/b.c"
       <<"~", "/", "b">>,                          \* "~/b"
       <<"~", "/", "b", ".", "t", "s">>,           \* "~/b.ts"
       <<"a", ".", "b">>,                          \* "a.b"
       <<"a", "x", "b">>,                          \* "axb"
       <<"b">>,                                    \* "b"
       <<".", "/", "b">> >>                        \* "./b"

\* the paths a resolution of the specifier can look at (no package.json)
Universe(paths, path) ==
    LET tryPaths == getPathsToTry(getAbsoluteMappingEntries(paths), path)
    IN  {tryPaths[n].path : n \in {m \in 1..Len(tryPaths) :
                                      tryPaths[m].type # "package"}}

RECURSIVE FilesystemsUpTo(_, _)
\* the filesystems with at most k paths of U present
FilesystemsUpTo(U, k) ==
    IF k = 0 THEN {{}}
    ELSE LET S == FilesystemsUpTo(U, k - 1)
         IN  S \cup {g \in {s \cup {[path |-> p, kind |-> kd]} :
                                s \in S, p \in U, kd \in Kinds} :
                         Cardinality({e.path : e \in g}) = Cardinality(g)}

\* an entry below another entry's path makes that path a directory
Consistent(f) ==
    \A e1 \in f, e2 \in f :
        startsWith(e2.path, e1.path \o <<"/">>) => e1.kind = "dir"

Filesystems(paths, path) ==
    {f \in FilesystemsUpTo(Universe(paths, path), MaxPresent) : Consistent(f)}

IdleRun == [pc |-> "idle"]

InitResolve ==
    /\ \E n \in 1..Len(PluginConfigs) : tsconfig = PluginConfigs[n]
    /\ \E n \in 1..Len(Specifiers) : specifier = Specifiers[n]
    /\ fs \in Filesystems(tsconfig.paths, specifier)
    /\ ppc = "setup"
    /\ hook = NoHook
    /\ resolved = Undefined
    /\ result = Undefined
    /\ accessed = {}
    /\ run = IdleRun

\* esbuild runs the plugin's setup
Setup ==
    /\ ppc = "setup"
    /\ ppc' = setup(tsconfig).pc
    /\ hook' = setup(tsconfig).hook
    /\ UNCHANGED <<tsconfig, fs, specifier, resolved, result, accessed, run>>

\* esbuild resolves the specifier: the callback runs when the filter matches
Resolve ==
    /\ ppc = "ready"
    /\ ppc' = "resolved"
    /\ IF hookCalled(hook, specifier)
       THEN /\ resolved' = match(fs, hook.paths, specifier)
            /\ result' = onResolve(fs, hook.paths, specifier)
            /\ accessed' = matchAccessed(fs, hook.paths, specifier)
                           \cup onResolveAccessed(fs, hook.paths, specifier)
       ELSE /\ resolved' = Undefined
            /\ result' = Undefined
            /\ accessed' = {}
    /\ UNCHANGED <<tsconfig, fs, specifier, hook, run>>

NextResolve == Setup \/ Resolve

SpecResolve == InitResolve /\ [][NextResolve]_vars

----------------------------------------------------------------------------
(* runBuild: format and entry points *)

\* path.dirname(tsconfigPath); baseUrl is '.', so this is resolvedBase too
tsconfigDir == <<"/", "r">>

\* String.prototype.toLowerCase on the letters the inputs use
toLowerCase(s) ==
    [n \in 1..Len(s) |->
        (CASE s[n] = "C" -> "c"
           [] s[n] = "J" -> "j"
           [] s[n] = "S" -> "s"
           [] s[n] = "N" -> "n"
           [] s[n] = "E" -> "e"
           [] OTHER      -> s[n])]

Str_commonjs == <<"c", "o", "m", "m", "o", "n", "j", "s">>
Str_main_ts  == <<"m", "a", "i", "n", ".", "t", "s">>
Str_index_ts == <<"i", "n", "d", "e", "x", ".", "t", "s">>

\* moduleToFormat without the toLowerCase
moduleToFormatCaseSensitive(moduleOption) ==
    IF ~moduleOption.declared \/ moduleOption.value = <<>> THEN "cjs"
    ELSE IF includes(moduleOption.value, Str_commonjs) THEN "cjs"
    ELSE "esm"

\* moduleToFormat(moduleOption?: string); !moduleOption holds for undefined
\* and for the empty string
moduleToFormat(moduleOption) ==
    IF ~moduleOption.declared \/ moduleOption.value = <<>> THEN "cjs"
    ELSE IF includes(toLowerCase(moduleOption.value), Str_commonjs) THEN "cjs"
    ELSE "esm"

\* options.format ?? moduleToFormat(compilerOptions?.module)
formatOf(override, moduleOption) ==
    IF override # "undefined" THEN override ELSE moduleToFormat(moduleOption)

\* entryPoints.find(ep => ep.endsWith('main.ts') || ep.endsWith('index.ts'))
\* as an index, 0 when find gives undefined
findMainEntry(entryPoints) ==
    LET hits == {n \in 1..Len(entryPoints) :
                    \/ endsWith(entryPoints[n], Str_main_ts)
                    \/ endsWith(entryPoints[n], Str_index_ts)}
    IN  IF hits = {} THEN 0
        ELSE CHOOSE n \in hits : \A m \in hits : n <= m

\* the entry points of the configuration: files verbatim, each resolved
\* against tsconfigDir; else the glob of the include patterns (absolute
\* regular files, in the glob's order), collapsed to one when bundling; else
\* none
discoverEntryPoints(cfg, shouldBundle) ==
    LET absolute == [n \in 1..Len(cfg.names) |-> join(tsconfigDir, cfg.names[n])]
        mainEntry == findMainEntry(absolute)
    IN  IF cfg.source = "files" THEN absolute
        ELSE IF cfg.source = "include"
             THEN IF shouldBundle /\ Len(absolute) > 1
                  THEN IF mainEntry # 0 THEN <<absolute[mainEntry]>>
                       ELSE <<absolute[1]>>
                  ELSE absolute
        ELSE <<>>

\* runBuild up to the build call, without the entryPoints.length === 0 exit
resolveConfigurationUnchecked(r) ==
    IF ~r.readable
    THEN [r EXCEPT !.pc = "exited", !.exitCode = 1]
    ELSE [r EXCEPT !.pc = "bundle",
                   !.format = formatOf(r.override, r.module),
                   !.entryPoints = discoverEntryPoints(r, r.bundle)]

\* runBuild up to the build call: read and parse the tsconfig (a throw ends
\* in the outer catch: exit 1), choose the format, discover the entry
\* points, exit 1 when there are none
resolveConfiguration(r) ==
    IF ~r.readable
    THEN [r EXCEPT !.pc = "exited", !.exitCode = 1]
    ELSE LET entryPoints == discoverEntryPoints(r, r.bundle)
         IN  IF Len(entryPoints) = 0
             THEN [r EXCEPT !.pc = "exited", !.exitCode = 1]
             ELSE [r EXCEPT !.pc = "bundle",
                            !.format = formatOf(r.override, r.module),
                            !.entryPoints = entryPoints]

----------------------------------------------------------------------------
(* The inputs of Spec *)

EntryNames ==
    { <<"a", "/", "u", "t", "i", "l", ".", "t", "s">>,          \* a/util.ts
      <<"a", "/", "i", "n", "d", "e", "x", ".", "t", "s">>,     \* a/index.ts
      <<"a", "/", "m", "a", "i", "n", ".", "t", "s">>,          \* a/main.ts
      <<"a", "/", "d", "o", "m", "a", "i", "n", ".", "t", "s">>,  \* a/domain.ts
      <<"a", "/", "m", "a", "i", "n", ".", "j", "s">> }         \* a/main.js

RECURSIVE NameLists(_)
\* the lists of at most k distinct entry names
NameLists(k) ==
    IF k = 0 THEN {<<>>}
    ELSE LET S == NameLists(k - 1)
         IN  S \cup UNION {{Append(l, e) :
                               e \in EntryNames \ {l[n] : n \in 1..Len(l)}} :
                           l \in {m \in S : Len(m) = k - 1}}

Absent == [declared |-> FALSE, value |-> <<>>]
Declared(v) == [declared |-> TRUE, value |-> v]

\* compilerOptions?.module
Modules ==
    { Absent,
      Declared(<<>>),                                               \* ""
      Declared(<<"C", "o", "m", "m", "o", "n", "J", "S">>),         \* CommonJS
      Declared(Str_commonjs),                                       \* commonjs
      Declared(<<"N", "o", "d", "e", "N", "e", "x", "t">>),         \* NodeNext
      Declared(<<"E", "S", "6">>) }                                 \* ES6

\* options.format
Overrides == {"undefined", "cjs", "esm", "iife"}

\* files given / include an array / include not an array / neither
Sources == {"files", "include", "includeNotArray", "none"}

Invocation(readable, bundle, dts, override, moduleOption, source, names) ==
    [pc |-> "start",
     readable |-> readable,         \* readFileSync and JSON.parse succeed
     bundle |-> bundle,             \* options.bundle === true
     dts |-> dts,                   \* options.dts !== false
     override |-> override,
     module |-> moduleOption,
     source |-> source,
     names |-> names,               \* files, or what the include glob finds
     entryPoints |-> <<>>,
     format |-> "undefined",
     bundling |-> "notStarted",     \* the build call
     buildArgs |-> [entryPoints |-> <<>>, format |-> "undefined",
                    bundle |-> FALSE],
     declarations |-> "notStarted", \* emitDeclarations
     success |-> FALSE,             \* "Build finished successfully!" printed
     exitCode |-> 0]

Init ==
    /\ run \in
         {Invocation(TRUE, b, d, o, m, src, names) :
             b \in BOOLEAN, d \in BOOLEAN, o \in Overrides, m \in Modules,
             src \in {"files", "include"}, names \in NameLists(MaxEntries)}
         \cup
         {Invocation(rd, b, d, o, m, src, <<>>) :
             rd \in BOOLEAN, b \in BOOLEAN, d \in BOOLEAN, o \in Overrides,
             m \in Modules, src \in Sources}
    /\ tsconfig = PluginConfigs[1]
    /\ specifier = Specifiers[1]
    /\ fs = {}
    /\ ppc = "setup"
    /\ hook = NoHook
    /\ resolved = Undefined
    /\ result = Undefined
    /\ accessed = {}

plugin == <<tsconfig, fs, specifier, ppc, hook, resolved, result, accessed>>

\* lines 141-197
ResolveConfiguration ==
    /\ run.pc = "start"
    /\ run' = resolveConfiguration(run)
    /\ UNCHANGED plugin

\* await build({entryPoints, ..., bundle: shouldBundle, format, ...})
StartBundling ==
    /\ run.pc = "bundle"
    /\ run' = [run EXCEPT !.pc = "bundling",
                          !.bundling = "running",
                          !.buildArgs = [entryPoints |-> run.entryPoints,
                                         format |-> run.format,
                                         bundle |-> run.bundle]]
    /\ UNCHANGED plugin

BundlingSucceeds ==
    /\ run.pc = "bundling"
    /\ run' = [run EXCEPT !.pc = "bundled", !.bundling = "ok"]
    /\ UNCHANGED plugin

\* a build failure that is reported and then carried on from
BundlingFailsAndContinues ==
    /\ run.pc = "bundling"
    /\ run' = [run EXCEPT !.pc = "bundled", !.bundling = "failed"]
    /\ UNCHANGED plugin

\* build rejects: the errors are printed and process.exit(1)
BundlingFails ==
    /\ run.pc = "bundling"
    /\ run' = [run EXCEPT !.pc = "exited", !.bundling = "failed",
                          !.exitCode = 1]
    /\ UNCHANGED plugin

\* options.dts !== false and emitDeclarations returns true
DeclarationsEmitted ==
    /\ run.pc = "bundled"
    /\ run.dts
    /\ run' = [run EXCEPT !.pc = "done", !.declarations = "ok",
                          !.success = TRUE]
    /\ UNCHANGED plugin

\* options.dts !== false and emitDeclarations returns false: process.exit(1)
DeclarationsFail ==
    /\ run.pc = "bundled"
    /\ run.dts
    /\ run' = [run EXCEPT !.pc = "exited", !.declarations = "failed",
                          !.exitCode = 1]
    /\ UNCHANGED plugin

\* options.dts === false
DeclarationsSkipped ==
    /\ run.pc = "bundled"
    /\ ~run.dts
    /\ run' = [run EXCEPT !.pc = "done", !.success = TRUE]
    /\ UNCHANGED plugin

Next ==
    \/ ResolveConfiguration
    \/ StartBundling
    \/ BundlingSucceeds
    \/ BundlingFails
    \/ DeclarationsEmitted
    \/ DeclarationsFail
    \/ DeclarationsSkipped

Spec == Init /\ [][Next]_vars

----------------------------------------------------------------------------
(* Properties of the plugin (SpecResolve) *)

\* the callback has run for the specifier
HookRan == ppc = "resolved" /\ hookCalled(hook, specifier)

\* C.ts, C.tsx, C.js, C.jsx, C.json, C/index.ts, ..., C/index.json
ProbeSequence(c) ==
    [n \in 1..(2 * Len(extensions)) |->
        IF n <= Len(extensions)
        THEN c \o extensions[n]
        ELSE Concat3(c, <<"/", "i", "n", "d", "e", "x">>,
                     extensions[n - Len(extensions)])]

IsRegularFile(p) == \E e \in fs : e.path = p /\ e.kind = "file"

\* the first path of the sequence that is a regular file, if any
FirstRegularFile(seq) ==
    IF \E n \in 1..Len(seq) : IsRegularFile(seq[n])
    THEN Path(seq[CHOOSE n \in 1..Len(seq) :
                      /\ IsRegularFile(seq[n])
                      /\ \A m \in 1..(n - 1) : ~IsRegularFile(seq[m])])
    ELSE Undefined

\* the specifier is the key, or the key's text around its one "*" with at
\* least one character for the "*"
AliasMatches(key, s) ==
    LET star == IndexOf(key, "*", 1)
    IN  \/ key = s
        \/ /\ star # 0
           /\ Len(s) >= Len(key)
           /\ startsWith(s, SubSeq(key, 1, star - 1))
           /\ endsWith(s, SubSeq(key, star + 1, Len(key)))

\* the first target of the key with the "*" replaced by what it stands for
Substituted(entry, s) ==
    LET star == IndexOf(entry.key, "*", 1)
        text == IF entry.key = s THEN <<>>
                ELSE SubSeq(s, star, Len(s) - (Len(entry.key) - star))
    IN  join(resolvedBase, replaceFirst(entry.targets[1], "*", text))

\* the specifier begins with the key's text before its "*" (the whole key
\* when it has none)
BeginsWithKeyPrefix(key, s) ==
    LET star == IndexOf(key, "*", 1)
    IN  startsWith(s, IF star = 0 THEN key ELSE SubSeq(key, 1, star - 1))

ConfiguredKeys == {tsconfig.paths[n].key : n \in 1..Len(tsconfig.paths)}

C2_NeverFalselyClaims ==
    ppc = "resolved" =>
       /\ result = Undefined \/ IsRegularFile(result.path)
       /\ (/\ resolved.kind = "path"
           /\ ~IsRegularFile(resolved.path)
           /\ FirstRegularFile(ProbeSequence(resolved.path)) = Undefined)
          => result = Undefined

\* C3: a specifier that begins with no configured alias key prefix gets "no
\* opinion" and no existence or stat check at all.
C3_NoAccessOutsideAliases ==
    (/\ ppc = "resolved"
     /\ \A k \in ConfiguredKeys : ~BeginsWithKeyPrefix(k, specifier))
    => result = Undefined /\ accessed = {}

\* C8: a readable, well-formed configuration without a `paths` entry, with
\* or without compilerOptions: setup ends without error, installs no hook,
\* and every specifier gets "no opinion".
C8_NoPathsNoHook ==
    (/\ ppc # "setup"
     /\ tsconfig.readable /\ tsconfig.wellFormed /\ ~tsconfig.hasPaths)
    => /\ ppc # "threw"
       /\ ~hook.installed
       /\ ppc = "resolved" => result = Undefined

\* C9: a candidate the filesystem fails on counts as not existing: the hook
\* goes on and returns the later candidate that is a regular file.
C9_ErrorIsAbsence ==
    (HookRan /\ resolved.kind = "path" /\ extname(resolved.path) = <<>>)
    => LET seq == ProbeSequence(resolved.path)
       IN  \A i \in 1..Len(seq), j \in 1..Len(seq) :
              (/\ i < j
               /\ KindOf(fs, seq[i]) = "err"
               /\ IsRegularFile(seq[j])
               /\ \A m \in 1..(j - 1) : ~IsRegularFile(seq[m]))
              => result = Path(seq[j])

\* C.ts cannot be read, C.js is a regular file and is returned
C9_Witness ==
    /\ HookRan
    /\ \E n \in 1..Len(tsconfig.paths) :
          /\ AliasMatches(tsconfig.paths[n].key, specifier)
          /\ resolved = Path(Substituted(tsconfig.paths[n], specifier))
    /\ extname(resolved.path) = <<>>
    /\ KindOf(fs, directCandidates(resolved.path)[1]) = "err"
    /\ result = Path(directCandidates(resolved.path)[3])

\* C10: the candidate is returned as it is, without probing, only when it
\* ends in one of .ts, .tsx, .js, .jsx, .json.
C10_DirectOnlyForKnownExtension ==
    (HookRan /\ resolved.kind = "path" /\ result = Path(resolved.path))
    => \E n \in 1..Len(extensions) : endsWith(resolved.path, extensions[n])

----------------------------------------------------------------------------
(* Properties of runBuild (Spec) *)

\* the bundler has been invoked
BundlerInvoked == run.bundling # "notStarted"

\* what discovery found before any collapse, as absolute paths
Discovered ==
    IF run.source \in {"files", "include"}
    THEN [n \in 1..Len(run.names) |-> join(tsconfigDir, run.names[n])]
    ELSE <<>>

\* the last segment without its extension
BaseName(p) ==
    SubSeq(basename(p), 1, Len(basename(p)) - Len(extname(p)))

IsPreferredName(p) ==
    BaseName(p) \in {<<"m", "a", "i", "n">>, <<"i", "n", "d", "e", "x">>}

\* the first path named main or index, else the first path
Preferred(list) ==
    IF \E n \in 1..Len(list) : IsPreferredName(list[n])
    THEN list[CHOOSE n \in 1..Len(list) :
                  /\ IsPreferredName(list[n])
                  /\ \A m \in 1..(n - 1) : ~IsPreferredName(list[m])]
    ELSE list[1]

\* C4: with bundling requested and more than one path discovered, from the
\* files list or from the include patterns, the bundler gets exactly one
\* entry point: the first named main or index, else the first discovered.
C4_CollapseToOne ==
    (BundlerInvoked /\ run.bundle /\ Len(Discovered) > 1)
    => run.buildArgs.entryPoints = <<Preferred(Discovered)>>

\* C5: whatever the source of entry points, zero entry points end the
\* invocation with exit code 1 before the bundler is invoked; the bundler
\* is only ever invoked with a non-empty list.
C5_NoEntryPointsIsFatal ==
    /\ (run.pc # "start" /\ Len(Discovered) = 0)
       => run.pc = "exited" /\ run.exitCode = 1 /\ ~BundlerInvoked
    /\ BundlerInvoked => Len(run.buildArgs.entryPoints) > 0

\* an empty files list, with the configuration read: exit 1, no build
C5_Witness ==
    /\ run.readable
    /\ run.source = "files"
    /\ run.names = <<>>
    /\ run.pc = "exited"
    /\ run.exitCode = 1
    /\ ~BundlerInvoked

SameLetter(c, d) ==
    \/ c = d
    \/ <<c, d>> \in {<<"C", "c">>, <<"O", "o">>, <<"M", "m">>, <<"N", "n">>,
                     <<"J", "j">>, <<"S", "s">>}

\* the string holds "commonjs" in some mix of upper and lower case
HasCommonJsToken(v) ==
    \E i \in 0..(Len(v) - Len(Str_commonjs)) :
        \A k \in 1..Len(Str_commonjs) : SameLetter(v[i + k], Str_commonjs[k])

\* C6, as the code has it: the bundler gets the caller's format when one is
\* given; else cjs when the declared module holds the CommonJS token in any
\* case, when no module is declared, or when the declared module is the
\* empty string; else esm.
C6_FormatInference ==
    BundlerInvoked =>
       run.buildArgs.format =
          IF run.override # "undefined" THEN run.override
          ELSE IF \/ ~run.module.declared
                  \/ run.module.value = <<>>
                  \/ HasCommonJsToken(run.module.value)
               THEN "cjs"
               ELSE "esm"

\* "CommonJS" with no override reaches the bundler as cjs
C6_Witness ==
    /\ BundlerInvoked
    /\ run.override = "undefined"
    /\ run.module = Declared(<<"C", "o", "m", "m", "o", "n", "J", "S">>)
    /\ run.buildArgs.format = "cjs"

\* C6 as claimed: cjs only for the CommonJS token or no declared module, esm
\* for every other declared module value.
C6_AsClaimed ==
    BundlerInvoked =>
       run.buildArgs.format =
          IF run.override # "undefined" THEN run.override
          ELSE IF \/ ~run.module.declared
                  \/ HasCommonJsToken(run.module.value)
               THEN "cjs"
               ELSE "esm"

\* C7: configuration, then bundling, then declarations: declarations are
\* emitted only after bundling succeeded, and a bundling failure ends the
\* invocation with exit code 1, no declaration emission and no success
\* report.
C7_PhasesInOrder ==
    /\ BundlerInvoked => run.format # "undefined" /\ run.entryPoints # <<>>
    /\ run.declarations # "notStarted" => run.bundling = "ok"
    /\ run.success => run.bundling = "ok"
    /\ run.bundling = "failed"
       => /\ run.pc = "exited"
          /\ run.exitCode = 1
          /\ run.declarations = "notStarted"
          /\ ~run.success

\* bundling failed with declarations wanted: exit 1 and none emitted
C7_Witness ==
    /\ run.bundling = "failed"
    /\ run.dts
    /\ run.pc = "exited"
    /\ run.declarations = "notStarted"


====
